---- MODULE Spec2Model ----
(***************************************************************************)
(* State-machine model of app.py: the Flask chat backend.                  *)
(*                                                                         *)
(* Every HTTP request is served by its own thread.  Request r is the r-th  *)
(* request to arrive; pc[r] is the position of its thread in the handler.  *)
(* Shared state: the cached model handle with its lock, the session store  *)
(* with its lock, the download directory and the remote model catalog.     *)
(*                                                                         *)
(* Text is a sequence of one-token strings, so that concatenation, join    *)
(* and strip() are computed as the code computes them.  The "time" field   *)
(* of a turn (wall clock, HH:MM) is left out of the turn records.          *)
(***************************************************************************)
EXTENDS Integers, Sequences, FiniteSets, TLC

\* ------------------------------------------------------------------ bounds
NumRequests == 2
MaxFiles == 1

Requests == 1..NumRequests

\* ------------------------------------------------------------------- text
NL == "\n"
SP == " "
None == "<None>"
NoText == <<None>>
EmptyText == <<>>

IsSpace(c) == c \in {NL, SP}

RECURSIVE LStrip(_)
LStrip(t) ==
  IF t # <<>> /\ IsSpace(Head(t)) THEN LStrip(Tail(t)) ELSE t

RECURSIVE RStrip(_)
RStrip(t) ==
  IF t # <<>> /\ IsSpace(t[Len(t)]) THEN RStrip(SubSeq(t, 1, Len(t) - 1)) ELSE t

Strip(t) == RStrip(LStrip(t))

RECURSIVE JoinNL(_)
JoinNL(parts) ==
  IF parts = <<>> THEN <<>>
  ELSE IF Len(parts) = 1 THEN parts[1]
  ELSE parts[1] \o <<NL>> \o JoinNL(Tail(parts))

OrEmpty(t) == IF t = NoText THEN EmptyText ELSE t

RECURSIVE MapOrEmpty(_)
MapOrEmpty(parts) ==
  IF parts = <<>> THEN <<>>
  ELSE <<OrEmpty(Head(parts))>> \o MapOrEmpty(Tail(parts))

RECURSIVE ShapeText(_)
ShapeText(shapes) ==
  IF shapes = <<>> THEN <<>>
  ELSE (IF Head(shapes) = NoText THEN <<>> ELSE Head(shapes) \o <<NL>>)
       \o ShapeText(Tail(shapes))

Lower(ext) ==
  CASE ext = ".PDF" -> ".pdf"
    [] ext = ".DOCX" -> ".docx"
    [] ext = ".PPTX" -> ".pptx"
    [] OTHER -> ext

extract_file_text(file) ==
  LET ext == Lower(file.ext)
      text == IF ext \in {".pdf", ".docx", ".pptx"} /\ file.corrupt THEN EmptyText
              ELSE CASE ext = ".pdf" -> JoinNL(MapOrEmpty(file.parts))
                     [] ext = ".docx" -> JoinNL(file.parts)
                     [] ext = ".pptx" -> ShapeText(file.parts)
                     [] OTHER -> EmptyText
  IN Strip(text)

\* The reply literals of call_gemini and of the handler, one token each.
NoResponseText == <<"No response from AI.">>
UnavailableText == <<"Gemini service temporarily unavailable.">>
NoInputText == <<"No input provided">>
ServerErrorText == <<"Server error">>
GeneratedText == <<"g">>

\* uuid.uuid4(): a value no other call returns; one per request and call site.
Uuid(r, site) == "uuid-" \o ToString(r) \o "-" \o site

StoredName(r, i, file) == Uuid(r, ToString(i)) \o "_" \o file.stem \o file.ext

\* Python truthiness of a text, and of a chat_id (None and "" are falsy).
TruthyText(t) == t # <<>>
TruthyId(c) == c # None /\ c # ""

ComposeInput(msg, ftext) ==
  IF TruthyText(ftext) THEN msg \o <<NL, NL>> \o ftext ELSE msg

\* Mutant of ResolveChatId: the supplied id ignored.
ResolveChatIdAlwaysNew(r, cid) == Uuid(r, "chat")

ResolveChatId(r, cid) == IF TruthyId(cid) THEN cid ELSE Uuid(r, "chat")

\* ------------------------------------------------------- remote catalog
\* genai.list_models(): entries in catalog order, each with its methods.
EmbedEntry == [name |-> "models/embed", methods |-> {"embedContent"}]
ProEntry == [name |-> "models/pro", methods |-> {"generateContent", "countTokens"}]
FlashEntry == [name |-> "models/flash", methods |-> {"generateContent"}]

Catalogs == {<<EmbedEntry>>, <<EmbedEntry, ProEntry, FlashEntry>>}

RECURSIVE FirstSupporting(_)
FirstSupporting(cat) ==
  IF cat = <<>> THEN None
  ELSE IF "generateContent" \in Head(cat).methods THEN Head(cat).name
  ELSE FirstSupporting(Tail(cat))

\* genai.GenerativeModel(name): a new object at every construction.
NoModel == [name |-> None, obj |-> 0]
GenerativeModel(name, r) == [name |-> name, obj |-> r]

\* ----------------------------------------------------------- inputs
TextFile == [stem |-> "n", ext |-> ".txt", parts |-> << <<"t">> >>, corrupt |-> FALSE]
PdfFile == [stem |-> "p", ext |-> ".PDF", parts |-> << <<"t">>, NoText >>, corrupt |-> FALSE]
BadDocx == [stem |-> "d", ext |-> ".docx", parts |-> <<>>, corrupt |-> TRUE]

AllFiles == {TextFile, PdfFile, BadDocx}

RECURSIVE SeqsUpTo(_, _)
SeqsUpTo(S, n) ==
  IF n = 0 THEN {<<>>}
  ELSE LET prev == SeqsUpTo(S, n - 1)
       IN prev \cup {Append(q, x) : q \in prev, x \in S}

FileLists == SeqsUpTo(AllFiles, MaxFiles)

Messages == {EmptyText, <<"h", "i">>}
ClientIds == {None, "", "c1"}

\* A parsed request body.  A JSON body carries no files.
Body(msg, cid, fs) == [message |-> msg, chat_id |-> cid, files |-> fs]

\* ------------------------------------------------------------ state
VARIABLES
  _model,            \* the cached model handle, NoModel until resolved
  _model_lock,       \* holder of _model_lock, 0 when free
  chat_sessions,     \* session id -> [messages |-> sequence of turns]
  chat_lock,         \* holder of chat_lock, 0 when free
  downloads,         \* names of the files stored under DOWNLOAD_DIR
  catalog,           \* what the remote service lists
  thread,            \* per request: position, locals of the handler, response
  list_models_calls, \* history: number of catalog queries
  resolve_failures,  \* history: number of get_working_model calls that raised
  returned_models    \* history: handles get_working_model has returned

vars == <<_model, _model_lock, chat_sessions, chat_lock, downloads, catalog,
          thread, list_models_calls, resolve_failures, returned_models>>

history == <<list_models_calls, resolve_failures, returned_models>>

NoSessions == [id \in {} |-> [messages |-> <<>>]]
NoResponse == [status |-> 0, reply |-> EmptyText, chat_id |-> None, body |-> NoSessions]

\* A thread before its request arrives, and after it has returned.
\* parsed, gen_outcome and sessions_before are history fields: whether the
\* body was parsed, how call_gemini ended for the request, and the store when
\* the request arrived.
Fresh(at) ==
  [pc |-> at, route |-> "", parsed |-> FALSE, user_input |-> EmptyText, chat_id |-> None,
   files |-> <<>>, uploaded_files |-> <<>>, file_text |-> EmptyText,
   final_input |-> EmptyText, reply |-> EmptyText, new_chat_id |-> None,
   model |-> NoModel, response |-> NoResponse, gen_outcome |-> "none",
   sessions_before |-> NoSessions]

Init ==
  /\ _model = NoModel
  /\ _model_lock = 0
  /\ chat_sessions = NoSessions
  /\ chat_lock = 0
  /\ downloads = {}
  /\ catalog \in Catalogs
  /\ thread = [r \in Requests |-> Fresh("idle")]
  /\ list_models_calls = 0
  /\ resolve_failures = 0
  /\ returned_models = {}

At(r, where) == thread[r].pc = where

\* Requests are numbered in arrival order.
Arrives(r) == At(r, "idle") /\ \A q \in Requests : q < r => ~At(q, "idle")

Respond(status, text, cid) ==
  [status |-> status, reply |-> text, chat_id |-> cid, body |-> NoSessions]

\* ------------------------------------------------------- chat(): input
\* Lines 103-114: the body parsed, multipart or JSON.
Parse(r, body) ==
  /\ Arrives(r)
  /\ thread' = [thread EXCEPT ![r] =
        [@ EXCEPT !.pc = "validate", !.route = "chat", !.parsed = TRUE,
                  !.user_input = body.message, !.chat_id = body.chat_id,
                  !.files = body.files, !.sessions_before = chat_sessions]]
  /\ UNCHANGED <<_model, _model_lock, chat_sessions, chat_lock, downloads, catalog, history>>

\* Lines 112, 164-166: request.get_json() raises on a malformed body.
ParseFail(r) ==
  /\ Arrives(r)
  /\ thread' = [thread EXCEPT ![r] =
        [@ EXCEPT !.pc = "return", !.route = "chat",
                  !.sessions_before = chat_sessions,
                  !.response = Respond(500, ServerErrorText, None)]]
  /\ UNCHANGED <<_model, _model_lock, chat_sessions, chat_lock, downloads, catalog, history>>

\* Mutant of NoInput: the test on the files negated.
NoInputNeedsFiles(msg, fs) == ~TruthyText(msg) /\ fs # <<>>

NoInput(msg, fs) == ~TruthyText(msg) /\ fs = <<>>

\* Lines 116-117.
RejectEmpty(r) ==
  /\ At(r, "validate")
  /\ NoInput(thread[r].user_input, thread[r].files)
  /\ thread' = [thread EXCEPT ![r] =
        [@ EXCEPT !.pc = "return", !.response = Respond(400, NoInputText, None)]]
  /\ UNCHANGED <<_model, _model_lock, chat_sessions, chat_lock, downloads, catalog, history>>

\* Mutant of AcceptInput: the session is created before the files are saved.
AcceptInputCreatesSession(r) ==
  /\ At(r, "validate")
  /\ ~(~TruthyText(thread[r].user_input) /\ thread[r].files = <<>>)
  /\ LET id == IF TruthyId(thread[r].chat_id) THEN thread[r].chat_id
               ELSE Uuid(r, "chat")
     IN chat_sessions' =
          IF id \in DOMAIN chat_sessions THEN chat_sessions
          ELSE [x \in DOMAIN chat_sessions \cup {id} |->
                  IF x = id THEN [messages |-> <<>>] ELSE chat_sessions[x]]
  /\ thread' = [thread EXCEPT ![r] = [@ EXCEPT !.pc = "files"]]
  /\ UNCHANGED <<_model, _model_lock, chat_lock, downloads, catalog, history>>

\* Lines 116, 119-120.
AcceptInput(r) ==
  /\ At(r, "validate")
  /\ ~NoInput(thread[r].user_input, thread[r].files)
  /\ thread' = [thread EXCEPT ![r] = [@ EXCEPT !.pc = "files"]]
  /\ UNCHANGED <<_model, _model_lock, chat_sessions, chat_lock, downloads, catalog, history>>

\* Lines 122-127: one iteration of the loop over the files.
SaveFile(r) ==
  /\ At(r, "files")
  /\ thread[r].files # <<>>
  /\ LET file == Head(thread[r].files)
         filename == StoredName(r, Len(thread[r].uploaded_files) + 1, file)
     IN /\ downloads' = downloads \cup {filename}
        /\ thread' = [thread EXCEPT ![r] =
              [@ EXCEPT !.files = Tail(@),
                        !.uploaded_files = Append(@, filename),
                        !.file_text = @ \o <<NL>> \o extract_file_text(file)]]
  /\ UNCHANGED <<_model, _model_lock, chat_sessions, chat_lock, catalog, history>>

\* Lines 125, 164-166: file.save() raises (no such directory, disk full).
SaveFileFail(r) ==
  /\ At(r, "files")
  /\ thread[r].files # <<>>
  /\ thread' = [thread EXCEPT ![r] =
        [@ EXCEPT !.pc = "return", !.response = Respond(500, ServerErrorText, None)]]
  /\ UNCHANGED <<_model, _model_lock, chat_sessions, chat_lock, downloads, catalog, history>>

\* Lines 129-137: the loop is over, the input composed and wrapped.
Compose(r) ==
  /\ At(r, "files")
  /\ thread[r].files = <<>>
  /\ thread' = [thread EXCEPT ![r] =
        [@ EXCEPT !.pc = "call_gemini",
                  !.final_input =
                     ComposeInput(thread[r].user_input, thread[r].file_text)]]
  /\ UNCHANGED <<_model, _model_lock, chat_sessions, chat_lock, downloads, catalog, history>>

\* ------------------------------------------- get_working_model()
\* Mutant of AcquireModelLock: the block is entered without waiting for the lock.
AcquireModelLockNoWait(r) ==
  /\ At(r, "call_gemini")
  /\ _model_lock' = r
  /\ thread' = [thread EXCEPT ![r] = [@ EXCEPT !.pc = "get_model"]]
  /\ UNCHANGED <<_model, chat_sessions, chat_lock, downloads, catalog, history>>

\* Line 33: with _model_lock, entered from call_gemini (line 85).
AcquireModelLock(r) ==
  /\ At(r, "call_gemini")
  /\ _model_lock = 0
  /\ _model_lock' = r
  /\ thread' = [thread EXCEPT ![r] = [@ EXCEPT !.pc = "get_model"]]
  /\ UNCHANGED <<_model, chat_sessions, chat_lock, downloads, catalog, history>>

\* Mutant of ReturnCached: generate_content is called inside the with block.
ReturnCachedKeepsLock(r) ==
  /\ At(r, "get_model")
  /\ _model # NoModel
  /\ returned_models' = returned_models \cup {_model}
  /\ thread' = [thread EXCEPT ![r] = [@ EXCEPT !.pc = "generate", !.model = _model]]
  /\ UNCHANGED <<_model, _model_lock, chat_sessions, chat_lock, downloads, catalog,
                 list_models_calls, resolve_failures>>

\* Lines 34-35: the cached handle is returned, the lock released.
ReturnCached(r) ==
  /\ At(r, "get_model")
  /\ _model # NoModel
  /\ _model_lock' = 0
  /\ returned_models' = returned_models \cup {_model}
  /\ thread' = [thread EXCEPT ![r] = [@ EXCEPT !.pc = "generate", !.model = _model]]
  /\ UNCHANGED <<_model, chat_sessions, chat_lock, downloads, catalog,
                 list_models_calls, resolve_failures>>

\* Lines 34, 37: nothing is cached; genai.list_models() is called with the
\* lock held.
CacheMiss(r) ==
  /\ At(r, "get_model")
  /\ _model = NoModel
  /\ thread' = [thread EXCEPT ![r] = [@ EXCEPT !.pc = "list_models"]]
  /\ UNCHANGED <<_model, _model_lock, chat_sessions, chat_lock, downloads, catalog, history>>

\* Lines 37-41: the catalog answers; the first entry that supports
\* generateContent is wrapped in a new handle and cached.
ListModelsFound(r) ==
  /\ At(r, "list_models")
  /\ FirstSupporting(catalog) # None
  /\ LET handle == GenerativeModel(FirstSupporting(catalog), r)
     IN /\ _model' = handle
        /\ returned_models' = returned_models \cup {handle}
        /\ thread' = [thread EXCEPT ![r] =
              [@ EXCEPT !.pc = "generate", !.model = handle]]
  /\ _model_lock' = 0
  /\ list_models_calls' = list_models_calls + 1
  /\ UNCHANGED <<chat_sessions, chat_lock, downloads, catalog, resolve_failures>>

\* Mutant of ListModelsNone: the RuntimeError is not absorbed by call_gemini.
ListModelsNoneFatal(r) ==
  /\ At(r, "list_models")
  /\ FirstSupporting(catalog) = None
  /\ _model_lock' = 0
  /\ list_models_calls' = list_models_calls + 1
  /\ resolve_failures' = resolve_failures + 1
  /\ thread' = [thread EXCEPT ![r] =
        [@ EXCEPT !.pc = "return", !.gen_outcome = "no_model",
                  !.response = [status |-> 500, reply |-> ServerErrorText,
                                chat_id |-> None, body |-> NoSessions]]]
  /\ UNCHANGED <<_model, chat_sessions, chat_lock, downloads, catalog, returned_models>>

\* Lines 37-43, 95-97: no entry supports generateContent; the RuntimeError
\* leaves the with block and is caught in call_gemini.
ListModelsNone(r) ==
  /\ At(r, "list_models")
  /\ FirstSupporting(catalog) = None
  /\ _model_lock' = 0
  /\ list_models_calls' = list_models_calls + 1
  /\ resolve_failures' = resolve_failures + 1
  /\ thread' = [thread EXCEPT ![r] =
        [@ EXCEPT !.pc = "resolve", !.reply = UnavailableText,
                  !.gen_outcome = "no_model"]]
  /\ UNCHANGED <<_model, chat_sessions, chat_lock, downloads, catalog, returned_models>>

\* Lines 37, 95-97: genai.list_models() itself raises (transport error).
ListModelsError(r) ==
  /\ At(r, "list_models")
  /\ _model_lock' = 0
  /\ list_models_calls' = list_models_calls + 1
  /\ resolve_failures' = resolve_failures + 1
  /\ thread' = [thread EXCEPT ![r] =
        [@ EXCEPT !.pc = "resolve", !.reply = UnavailableText,
                  !.gen_outcome = "catalog_error"]]
  /\ UNCHANGED <<_model, chat_sessions, chat_lock, downloads, catalog, returned_models>>

\* ----------------------------------------------------- call_gemini()
\* Lines 86-91: generate_content answers with a candidate and a part.
GenerateText(r) ==
  /\ At(r, "generate")
  /\ thread' = [thread EXCEPT ![r] =
        [@ EXCEPT !.pc = "resolve", !.reply = GeneratedText, !.gen_outcome = "text"]]
  /\ UNCHANGED <<_model, _model_lock, chat_sessions, chat_lock, downloads, catalog, history>>

\* Lines 86-93: no candidates, or no content parts.
GenerateEmpty(r) ==
  /\ At(r, "generate")
  /\ thread' = [thread EXCEPT ![r] =
        [@ EXCEPT !.pc = "resolve", !.reply = NoResponseText, !.gen_outcome = "empty"]]
  /\ UNCHANGED <<_model, _model_lock, chat_sessions, chat_lock, downloads, catalog, history>>

\* Mutant of GenerateError: the exception leaves call_gemini and reaches the
\* handler's except clause.
GenerateErrorRaises(r) ==
  /\ At(r, "generate")
  /\ thread' = [thread EXCEPT ![r] =
        [@ EXCEPT !.pc = "return", !.gen_outcome = "error",
                  !.response = [status |-> 500, reply |-> ServerErrorText,
                                chat_id |-> None, body |-> NoSessions]]]
  /\ UNCHANGED <<_model, _model_lock, chat_sessions, chat_lock, downloads, catalog, history>>

\* Lines 86, 95-97: generate_content raises.
GenerateError(r) ==
  /\ At(r, "generate")
  /\ thread' = [thread EXCEPT ![r] =
        [@ EXCEPT !.pc = "resolve", !.reply = UnavailableText, !.gen_outcome = "error"]]
  /\ UNCHANGED <<_model, _model_lock, chat_sessions, chat_lock, downloads, catalog, history>>

\* ------------------------------------------------ chat(): the append
\* Line 141.
ResolveId(r) ==
  /\ At(r, "resolve")
  /\ thread' = [thread EXCEPT ![r] =
        [@ EXCEPT !.pc = "lock", !.new_chat_id = ResolveChatId(r, thread[r].chat_id)]]
  /\ UNCHANGED <<_model, _model_lock, chat_sessions, chat_lock, downloads, catalog, history>>

\* Mutant of AcquireChatLock: the block is entered without waiting for the lock.
AcquireChatLockNoWait(r) ==
  /\ At(r, "lock")
  /\ chat_lock' = r
  /\ thread' = [thread EXCEPT ![r] = [@ EXCEPT !.pc = "setdefault"]]
  /\ UNCHANGED <<_model, _model_lock, chat_sessions, downloads, catalog, history>>

\* Line 144: with chat_lock.
AcquireChatLock(r) ==
  /\ At(r, "lock")
  /\ chat_lock = 0
  /\ chat_lock' = r
  /\ thread' = [thread EXCEPT ![r] = [@ EXCEPT !.pc = "setdefault"]]
  /\ UNCHANGED <<_model, _model_lock, chat_sessions, downloads, catalog, history>>

SetDefaultSession(sessions, id) ==
  IF id \in DOMAIN sessions THEN sessions
  ELSE [x \in DOMAIN sessions \cup {id} |->
          IF x = id THEN [messages |-> <<>>] ELSE sessions[x]]

AppendTurn(sessions, id, turn) ==
  [sessions EXCEPT ![id] = [messages |-> Append(@.messages, turn)]]

NoFiles == <<None>>

UserTurn(r) ==
  [id |-> Uuid(r, "user"), role |-> "user", message |-> thread[r].user_input,
   files |-> IF thread[r].uploaded_files # <<>> THEN thread[r].uploaded_files
             ELSE NoFiles]

AssistantTurn(r) ==
  [id |-> Uuid(r, "assistant"), role |-> "assistant", reply |-> thread[r].reply]

\* Line 145.
SetDefault(r) ==
  /\ At(r, "setdefault")
  /\ chat_sessions' = SetDefaultSession(chat_sessions, thread[r].new_chat_id)
  /\ thread' = [thread EXCEPT ![r] = [@ EXCEPT !.pc = "append_user"]]
  /\ UNCHANGED <<_model, _model_lock, chat_lock, downloads, catalog, history>>

\* Lines 147-153.
AppendUser(r) ==
  /\ At(r, "append_user")
  /\ chat_sessions' = AppendTurn(chat_sessions, thread[r].new_chat_id, UserTurn(r))
  /\ thread' = [thread EXCEPT ![r] = [@ EXCEPT !.pc = "append_assistant"]]
  /\ UNCHANGED <<_model, _model_lock, chat_lock, downloads, catalog, history>>

\* Lines 155-160.
AppendAssistant(r) ==
  /\ At(r, "append_assistant")
  /\ chat_sessions' = AppendTurn(chat_sessions, thread[r].new_chat_id, AssistantTurn(r))
  /\ thread' = [thread EXCEPT ![r] = [@ EXCEPT !.pc = "unlock"]]
  /\ UNCHANGED <<_model, _model_lock, chat_lock, downloads, catalog, history>>

\* Lines 160-162: the with block left, the reply built.
ReleaseChatLock(r) ==
  /\ At(r, "unlock")
  /\ chat_lock' = 0
  /\ thread' = [thread EXCEPT ![r] =
        [@ EXCEPT !.pc = "return",
                  !.response = Respond(200, thread[r].reply, thread[r].new_chat_id)]]
  /\ UNCHANGED <<_model, _model_lock, chat_sessions, downloads, catalog, history>>

\* The response is sent and the handler's frame is gone.
Finish(r) ==
  /\ At(r, "return")
  /\ thread' = [thread EXCEPT ![r] = Fresh("done")]
  /\ UNCHANGED <<_model, _model_lock, chat_sessions, chat_lock, downloads, catalog, history>>

\* ------------------------------------------------------- get_chats()
\* Lines 169-171: the store serialised as it is, chat_lock not taken.
GetChats(r) ==
  /\ Arrives(r)
  /\ thread' = [thread EXCEPT ![r] =
        [@ EXCEPT !.pc = "return", !.route = "chats",
                  !.response = [status |-> 200, reply |-> EmptyText,
                                chat_id |-> None, body |-> chat_sessions]]]
  /\ UNCHANGED <<_model, _model_lock, chat_sessions, chat_lock, downloads, catalog, history>>

\* ------------------------------------------------------ specifications
\* Ids a client can send: its own, or one it has seen in the store.
KnownIds == ClientIds \cup DOMAIN chat_sessions

Gemini(r) ==
  \/ AcquireModelLock(r)
  \/ ReturnCached(r)
  \/ CacheMiss(r)
  \/ ListModelsFound(r)
  \/ ListModelsNone(r)
  \/ ListModelsError(r)
  \/ GenerateText(r)
  \/ GenerateEmpty(r)
  \/ GenerateError(r)

Store(r) ==
  \/ ResolveId(r)
  \/ AcquireChatLock(r)
  \/ SetDefault(r)
  \/ AppendUser(r)
  \/ AppendAssistant(r)
  \/ ReleaseChatLock(r)
  \/ Finish(r)

\* Concurrent requests, JSON bodies with a message.
CoreBodies == {Body(<<"h", "i">>, cid, <<>>) : cid \in {None, "c1"}}

Next ==
  \E r \in Requests :
    \/ \E body \in CoreBodies : Parse(r, body)
    \/ AcceptInput(r)
    \/ Compose(r)
    \/ Gemini(r)
    \/ Store(r)
    \/ GetChats(r)

Spec == Init /\ [][Next]_vars

\* One request at a time.
Alone(r) == \A q \in Requests \ {r} : thread[q].pc \in {"idle", "done"}

Handler(r) ==
  \/ RejectEmpty(r)
  \/ AcceptInput(r)
  \/ SaveFile(r)
  \/ SaveFileFail(r)
  \/ Compose(r)
  \/ Gemini(r)
  \/ Store(r)

\* Every message and chat_id, with or without one attachment.
InputBodies ==
  {Body(msg, cid, fs) : msg \in Messages, cid \in KnownIds, fs \in {<<>>, <<TextFile>>}}

NextInput ==
  \E r \in Requests :
    \/ Alone(r) /\ \E body \in InputBodies : Parse(r, body)
    \/ Alone(r) /\ ParseFail(r)
    \/ Handler(r)

SpecInput == Init /\ [][NextInput]_vars

\* Every list of attachments.
FileBodies ==
  {Body(msg, cid, fs) : msg \in Messages, cid \in {None, "c1"}, fs \in FileLists}

NextFiles ==
  \E r \in Requests :
    \/ Alone(r) /\ \E body \in FileBodies : Parse(r, body)
    \/ Handler(r)

SpecFiles == Init /\ [][NextFiles]_vars

\* ------------------------------------------------------- properties
Msgs(id) == chat_sessions[id].messages

IsChat(r) == thread[r].route = "chat"
Returned(r, status) == At(r, "return") /\ IsChat(r) /\ thread[r].response.status = status

\* Where the turns a request has appended sit in the store.
OwnedPositions(r) ==
  UNION {{<<id, i>> : i \in {j \in 1..Len(Msgs(id)) :
                              Msgs(id)[j].id \in {Uuid(r, "user"), Uuid(r, "assistant")}}}
         : id \in DOMAIN chat_sessions}

\* Turns i and i+1 of session id are request r's user and assistant turn.
PairAt(id, i, r) ==
  /\ id \in DOMAIN chat_sessions
  /\ i >= 1 /\ i + 1 <= Len(Msgs(id))
  /\ Msgs(id)[i].id = Uuid(r, "user") /\ Msgs(id)[i].role = "user"
  /\ Msgs(id)[i + 1].id = Uuid(r, "assistant") /\ Msgs(id)[i + 1].role = "assistant"

Recorded(r, id, text) ==
  \E i \in 1..Len(Msgs(id)) :
    /\ PairAt(id, i, r)
    /\ Msgs(id)[i].message = thread[r].user_input
    /\ Msgs(id)[i + 1].reply = text

\* C1: under any interleaving, a request's turns in the store are none, or
\* its user turn alone as the last turn of its session while it holds the
\* lock between the two appends, or its user turn immediately followed by its
\* assistant turn; a request answered 200 has exactly that pair, in the
\* session it resolved, so it raised the turn count by exactly 2.
C1_PairsAppended ==
  \A r \in Requests :
    LET own == OwnedPositions(r)
    IN /\ Cardinality(own) <= 2
       /\ Cardinality(own) = 1 =>
            /\ At(r, "append_assistant") /\ chat_lock = r
            /\ own = {<<thread[r].new_chat_id, Len(Msgs(thread[r].new_chat_id))>>}
            /\ Msgs(thread[r].new_chat_id)[Len(Msgs(thread[r].new_chat_id))].role = "user"
       /\ Cardinality(own) = 2 =>
            \E id \in DOMAIN chat_sessions : \E i \in 1..Len(Msgs(id)) :
              own = {<<id, i>>, <<id, i + 1>>} /\ PairAt(id, i, r)
       /\ Returned(r, 200) =>
            /\ Cardinality(own) = 2
            /\ \A p \in own : p[1] = thread[r].response.chat_id

C1_Witness ==
  \E r \in Requests : \E q \in Requests \ {r} :
    /\ Returned(r, 200)
    /\ PairAt(thread[r].response.chat_id, 3, r)
    /\ PairAt(thread[r].response.chat_id, 1, q)
    /\ At(q, "return")

CompletePairs(messages) ==
  /\ Len(messages) % 2 = 0
  /\ \A i \in 1..Len(messages) :
       messages[i].role = (IF i % 2 = 1 THEN "user" ELSE "assistant")

\* C2: every session in a GET /api/chats snapshot holds only complete
\* user+assistant pairs.
C2_SnapshotComplete ==
  \A r \in Requests :
    (At(r, "return") /\ thread[r].route = "chats") =>
      \A id \in DOMAIN thread[r].response.body :
        CompletePairs(thread[r].response.body[id].messages)

\* C3 as claimed: all calls that return yield the same handle and the
\* catalog is queried at most once, failed resolutions included.
C3_QueriedOnce ==
  /\ Cardinality(returned_models) <= 1
  /\ list_models_calls <= 1

\* C3 amended: all calls that return yield the same cached handle, and at
\* most one catalog query is not a failed resolution: every further query
\* follows a resolution that raised and cached nothing.
C3_QueriedOncePerSuccess ==
  /\ Cardinality(returned_models) <= 1
  /\ returned_models \subseteq {_model}
  /\ list_models_calls <= resolve_failures + 1
  /\ (list_models_calls = resolve_failures + 1) <=> (_model # NoModel)

C3_Witness ==
  /\ resolve_failures >= 1
  /\ list_models_calls = 2
  /\ \E r \in Requests : At(r, "generate") /\ thread[r].model = _model

HadFiles(r) == thread[r].files # <<>> \/ thread[r].uploaded_files # <<>>

FilesOf(r) ==
  downloads \cap {StoredName(r, i, f) : i \in 1..MaxFiles, f \in AllFiles}

C5_ChatIdRoundTrip ==
  \A r \in Requests :
    Returned(r, 200) =>
      LET cid == thread[r].response.chat_id
      IN /\ TruthyId(thread[r].chat_id) => cid = thread[r].chat_id
         /\ ~TruthyId(thread[r].chat_id) =>
              TruthyId(cid) /\ cid \notin DOMAIN thread[r].sessions_before
         /\ cid \in DOMAIN chat_sessions
         /\ Recorded(r, cid, thread[r].response.reply)
         /\ \A p \in OwnedPositions(r) : p[1] = cid

C5_Witness ==
  \E r \in Requests :
    /\ Returned(r, 200)
    /\ thread[r].chat_id = ""
    /\ thread[r].response.chat_id = Uuid(r, "chat")
    /\ DOMAIN thread[r].sessions_before # {}

\* C6: when generate_content raises, the request is still answered 200 with
\* the fixed "temporarily unavailable" reply, and its user turn followed by an
\* assistant turn carrying that reply is in the resolved session.
C6_GenerationDegrades ==
  \A r \in Requests :
    (At(r, "return") /\ IsChat(r) /\ thread[r].gen_outcome = "error") =>
      /\ thread[r].response.status = 200
      /\ thread[r].response.reply = UnavailableText
      /\ thread[r].response.chat_id = ResolveChatId(r, thread[r].chat_id)
      /\ thread[r].response.chat_id \in DOMAIN chat_sessions
      /\ Recorded(r, thread[r].response.chat_id, UnavailableText)

C6_Witness ==
  \E r \in Requests :
    Returned(r, 200) /\ thread[r].gen_outcome = "error"

\* C7: a request that failed before the append step is answered with the
\* generic 500 "Server error" and the store is what it was when the request
\* arrived; none of its turns is in it.
C7_FailureLeavesStore ==
  \A r \in Requests :
    (At(r, "return") /\ IsChat(r) /\ thread[r].gen_outcome = "none"
       /\ (~thread[r].parsed \/ thread[r].files # <<>>)) =>
      /\ thread[r].response.status = 500
      /\ thread[r].response.reply = ServerErrorText
      /\ chat_sessions = thread[r].sessions_before
      /\ OwnedPositions(r) = {}

C7_Witness ==
  \E r \in Requests :
    /\ Returned(r, 500) /\ thread[r].files # <<>>
    /\ DOMAIN thread[r].sessions_before # {}

\* C8 as claimed: with no catalog entry that supports content generation no
\* chat request is answered 200 and no turn is recorded.
C8_NoModelNoService ==
  FirstSupporting(catalog) = None =>
    /\ \A r \in Requests : ~Returned(r, 200)
    /\ \A id \in DOMAIN chat_sessions : Msgs(id) = <<>>

\* C8 amended: with no catalog entry that supports content generation no
\* handle is ever cached, and every chat request that reaches call_gemini is
\* still answered 200, its reply the fixed "temporarily unavailable" text,
\* recorded as its assistant turn after its user turn.
C8_NoModelDegrades ==
  FirstSupporting(catalog) = None =>
    /\ _model = NoModel
    /\ \A r \in Requests :
         (At(r, "return") /\ IsChat(r) /\ thread[r].gen_outcome # "none") =>
           /\ thread[r].response.status = 200
           /\ thread[r].response.reply = UnavailableText
           /\ thread[r].response.chat_id \in DOMAIN chat_sessions
           /\ Recorded(r, thread[r].response.chat_id, UnavailableText)

C8_Witness ==
  /\ FirstSupporting(catalog) = None
  /\ \E r \in Requests : Returned(r, 200) /\ thread[r].gen_outcome = "no_model"

\* C9: a request whose generate_content call is in flight holds neither
\* chat_lock nor _model_lock, so whoever holds a lock is not waiting for the
\* generation service.
C9_NoLockWhileGenerating ==
  \A r \in Requests :
    At(r, "generate") => chat_lock # r /\ _model_lock # r

C9_Witness ==
  \E r \in Requests : \E q \in Requests \ {r} :
    /\ At(r, "generate")
    /\ chat_lock = q /\ At(q, "append_user")

Gathered(ftext) == \E i \in 1..Len(ftext) : ftext[i] # NL

\* C10: the composed input is the message, a blank line and the extracted
\* text exactly when some extracted text was gathered; with none gathered it
\* is the message alone.
C10_ComposedInput ==
  \A r \in Requests :
    At(r, "call_gemini") =>
      /\ Gathered(thread[r].file_text) <=>
           thread[r].final_input =
             thread[r].user_input \o <<NL, NL>> \o thread[r].file_text
      /\ ~Gathered(thread[r].file_text) =>
           thread[r].final_input = thread[r].user_input

====
